---- MODULE Spec2Model ----
(***************************************************************************)
(* A state-machine model of lv_tjpgd.c: the LVGL image-decoder plugin that *)
(* serves a JPEG line by line out of an 8-row strip decoded by TJpgDec.    *)
(*                                                                         *)
(* The state is the process-wide storage of the file (user_ctx, jdec, the  *)
(* two function-local statics of decoder_read), the C heap and the open    *)
(* FILE objects, plus a few history variables that record what the last    *)
(* call did.  Init is the state right after lv_tjpgd_init().  There is one *)
(* action per decoder callback: decoder_info, decoder_open, decoder_read,  *)
(* decoder_close.                                                          *)
(*                                                                         *)
(* Spec is the host on small images; SpecInfo queries images of every      *)
(* width class; SpecStrip reads whole rows of small and of wide images;    *)
(* SpecFeed runs decoder_info one feed-callback call at a time.            *)
(***************************************************************************)
EXTENDS Integers, Sequences, FiniteSets, TLC

(***************************************************************************)
(* Bounds of the model.                                                    *)
(***************************************************************************)
MaxWidth == 9        \* native width of the widest image (two MCUs per row)
MaxHeight == 12      \* native height of the tallest image (not a multiple of 8)
MaxScale == 1        \* largest LV_TJPGD_SCALING_FACTOR a build is made with
MaxSessions == 2     \* decoder_info calls in one behaviour
MaxReads == 17       \* decoder_read calls in one behaviour
MaxOdd == 1          \* decoder_read calls outside the row-sequential pattern

(***************************************************************************)
(* Program constants.                                                      *)
(***************************************************************************)
StripHeight == 8         \* rows per strip: the literal 8 of decoder_read
LastLineIdx == 7         \* "if (7 < lines_sent)"
BYTES_ON_PIXEL == 3      \* lv_tjpgd.h: RGB888 output of the engine
HeaderWBits == 11        \* lv_img_header_t.w is an 11-bit field
McuSize == 8             \* a minimum coded unit is 8 x 8 pixels
McuBytes == 2            \* stream bytes one MCU consumes (model unit)

NULL == 0

(***************************************************************************)
(* C integer types.                                                        *)
(***************************************************************************)
U8(n) == n % 256
U16(n) == n % 65536
\* (lv_coord_t) v: conversion to a signed 16-bit integer
I16(n) == LET m == n % 65536 IN IF m >= 32768 THEN m - 65536 ELSE m
\* C division truncates towards zero
CDiv(a, b) == IF a >= 0 THEN a \div b ELSE -((-a) \div b)
\* a store to the 11-bit unsigned bit-field header->w
HeaderField(v) == v % (2 ^ HeaderWBits)
Min(a, b) == IF a < b THEN a ELSE b
\* v >> s
Shr(v, s) == v \div (2 ^ s)

\* LV_TJPGD_SCALING_FACTOR_DIV for the scaling factor s
ScaleDiv(s) == 2 ^ s

(***************************************************************************)
(* The file system the host points the decoder at.  A file is a JPEG of    *)
(* native size w x h whose stream holds len bytes: HdrBytes of header and  *)
(* then McuBytes per 8 x 8 minimum coded unit, row by row; seek says       *)
(* whether the stream can be positioned (a regular file) or not (a pipe).  *)
(***************************************************************************)
\* The header as jd_prepare asks for it (model units): a marker it reads, a
\* segment it has no use for and skips, the frame header it reads.
HeaderPlan ==
    << [buff |-> TRUE, n |-> 1], [buff |-> FALSE, n |-> 1], [buff |-> TRUE, n |-> 2] >>

RECURSIVE PlanBytes(_)
\* the bytes the first k requests of the plan ask for
PlanBytes(k) == IF k = 0 THEN 0 ELSE PlanBytes(k - 1) + HeaderPlan[k].n

\* stream bytes jd_prepare consumes
HdrBytes == PlanBytes(Len(HeaderPlan))

McuCols(w) == (w + McuSize - 1) \div McuSize
McuRows(h) == (h + McuSize - 1) \div McuSize
FullLen(w, h) == HdrBytes + McuCols(w) * McuRows(h) * McuBytes

\* the files a behaviour may find at ImagePath: an intact image of the
\* largest size, an intact small one of exactly one strip, one cut off inside
\* the second MCU of its first strip, one cut off inside the frame header,
\* one cut off inside the segment that is skipped, and an intact one on a
\* stream that cannot seek
Files ==
    << [w |-> MaxWidth, h |-> MaxHeight, len |-> FullLen(MaxWidth, MaxHeight), seek |-> TRUE],
       [w |-> 2, h |-> StripHeight, len |-> FullLen(2, StripHeight), seek |-> TRUE],
       [w |-> MaxWidth, h |-> MaxHeight, len |-> HdrBytes + 2 * McuBytes - 1, seek |-> TRUE],
       [w |-> 2, h |-> StripHeight, len |-> HdrBytes - 1, seek |-> TRUE],
       [w |-> 2, h |-> StripHeight, len |-> HeaderPlan[1].n, seek |-> TRUE],
       [w |-> 2, h |-> StripHeight, len |-> FullLen(2, StripHeight), seek |-> FALSE] >>

\* intact images as wide as a JPEG header can say (a 16-bit field), for the
\* arithmetic of decoder_info
WideWidths == << 2047, 2048, 2049, 4097, 32767, 32768, 40001, 65535 >>
WideFiles ==
    [i \in 1..Len(WideWidths) |->
        [w |-> WideWidths[i], h |-> MaxHeight, len |-> FullLen(WideWidths[i], MaxHeight),
         seek |-> TRUE]]
AllFiles == Files \o WideFiles

ImagePath == << "a", ".", "j", "p", "g" >>
MissingPath == << "z", ".", "j", "p", "g" >>
\* a second image, next to the small one: the intact one of the largest size
OtherPath == << "b", ".", "j", "p", "g" >>
UpperPath == << "a", ".", "J", "P", "G" >>
\* a path shorter than the extension
ShortPath == << "p", "g" >>

\* fopen(fn, "rb") when file number disk is the one at ImagePath: that
\* file; the large image at OtherPath on the disk whose ImagePath holds the
\* small one; NULL when there is no file of that name
FileAt(fn, onDisk) ==
    IF fn = ImagePath THEN onDisk
    ELSE IF fn = OtherPath /\ AllFiles[onDisk] = Files[2] THEN 1
    ELSE NULL

\* what lv_img_src_get_type() can say of a source, and the sources tried.
\* pre is what memory holds right before the string, where it matters: the
\* characters that "&fn[strlen(fn) - 3]" reaches back to when the path has
\* fewer than three.
NoSource == [type |-> "UNKNOWN", fn |-> << >>, pre |-> << >>]
Sources ==
    { [type |-> "FILE", fn |-> ImagePath, pre |-> << >>],
      [type |-> "FILE", fn |-> OtherPath, pre |-> << >>],
      [type |-> "FILE", fn |-> MissingPath, pre |-> << >>],
      [type |-> "FILE", fn |-> UpperPath, pre |-> << >>],
      [type |-> "FILE", fn |-> ShortPath, pre |-> << "j" >>],
      [type |-> "FILE", fn |-> ShortPath, pre |-> << "/" >>],
      [type |-> "VARIABLE", fn |-> << >>, pre |-> << >>],
      NoSource }

VALID_FILE_EXTENSION == << "j", "p", "g" >>

\* !strcmp(&fn[strlen(fn) - 3], VALID_FILE_EXTENSION): the three characters
\* that end at the terminator of fn, wherever they begin
ExtensionOK(pre, fn) ==
    LET mem == pre \o fn
    IN  SubSeq(mem, Len(mem) - 2, Len(mem)) = VALID_FILE_EXTENSION

(***************************************************************************)
(* on_feed_decoder_cb(jd, buff, nbyte) on a stream at position pos of a    *)
(* file: fread gives what is left of it; fseek(SEEK_CUR) moves the         *)
(* position, also beyond the end, and fails on a stream that cannot seek.  *)
(***************************************************************************)
\* a feed that says every request was met
FeedAlwaysFull(pos, file, hasBuff, nbyte) == [ret |-> nbyte, pos |-> pos + nbyte]

on_feed_decoder_cb(pos, file, hasBuff, nbyte) ==
    IF hasBuff
    THEN LET got == IF pos >= file.len THEN 0 ELSE Min(nbyte, file.len - pos)
         IN  [ret |-> U16(got), pos |-> pos + got]
    ELSE IF file.seek THEN [ret |-> nbyte, pos |-> pos + nbyte]
         ELSE [ret |-> 0, pos |-> pos]

(***************************************************************************)
(* The engine.  jd_prepare reads the header through the feed callback and  *)
(* reports the native size; jd_decomp walks the MCUs of jd.height rows     *)
(* from y = 0, reads each through the feed callback and hands its          *)
(* rectangle, scaled, to the output callback.                              *)
(***************************************************************************)
jd_prepare(pos, file) ==
    LET feed(k) == on_feed_decoder_cb(pos + PlanBytes(k - 1), file,
                                      HeaderPlan[k].buff, HeaderPlan[k].n)
        short == { k \in 1..Len(HeaderPlan) : feed(k).ret # HeaderPlan[k].n }
        k == CHOOSE m \in short : \A j \in short : m <= j
    IN  IF short = {}
        THEN [res |-> "JDR_OK", pos |-> pos + HdrBytes, fed |-> HdrBytes,
              width |-> file.w, height |-> file.h]
        ELSE [res |-> "JDR_INP", pos |-> feed(k).pos, fed |-> PlanBytes(k),
              width |-> file.w, height |-> file.h]

\* The rectangle of the k-th MCU (k = 0, 1, ...) of one jd_decomp call, and
\* where in the scaled whole image its pixels come from (srcTop, srcLeft):
\* g is the number of MCUs the stream had delivered before this one.
McuRect(jd, k, g, file) ==
    LET cols == McuCols(jd.width)
        x    == McuSize * (k % cols)
        y    == McuSize * (k \div cols)
        rx   == Shr(IF x + McuSize <= jd.width THEN McuSize ELSE jd.width - x, jd.scale)
        ry   == Shr(IF y + McuSize <= jd.height THEN McuSize ELSE jd.height - y, jd.scale)
        fc   == McuCols(file.w)
    IN  [left   |-> Shr(x, jd.scale),
         right  |-> Shr(x, jd.scale) + rx - 1,
         top    |-> Shr(y, jd.scale),
         bottom |-> Shr(y, jd.scale) + ry - 1,
         srcTop |-> Shr(McuSize * (g \div fc), jd.scale),
         srcLeft |-> Shr(McuSize * (g % fc), jd.scale),
         skip   |-> (rx = 0 \/ ry = 0)]

\* The MCUs are read one after the other until one comes short: MCU k is
\* fed from where the k before it ended.
jd_decomp(jd, file, pos) ==
    LET total == McuCols(jd.width) * McuRows(jd.height)
        feed(k) == on_feed_decoder_cb(pos + k * McuBytes, file, TRUE, McuBytes)
        short == { k \in 0..(total - 1) : feed(k).ret # McuBytes }
        done == IF short = {} THEN total
                ELSE CHOOSE k \in short : \A m \in short : k <= m
        g0   == (pos - HdrBytes) \div McuBytes
        all  == [k \in 1..done |-> McuRect(jd, k - 1, g0 + (k - 1), file)]
        Shown(r) == ~r.skip
    IN  IF done = total
        THEN [res |-> "JDR_OK", pos |-> pos + total * McuBytes,
              fed |-> total * McuBytes, rects |-> SelectSeq(all, Shown)]
        ELSE [res |-> "JDR_INP", pos |-> feed(done).pos,
              fed |-> (done + 1) * McuBytes, rects |-> SelectSeq(all, Shown)]

(***************************************************************************)
(* on_decoder_line_output_cb(jd, bitmap, rect): the row copies it makes.   *)
(* Each copy is [off, n, row, col]: n bytes written at byte offset off of  *)
(* the frame buffer, taken from the scaled image from pixel (row, col) on. *)
(***************************************************************************)
RowCopies(fbw, rect) ==
    LET dst == BYTES_ON_PIXEL * ((rect.top * fbw) + rect.left)
        bws == U16(BYTES_ON_PIXEL * (rect.right - rect.left + 1))
        bwd == U16(BYTES_ON_PIXEL * fbw)
    IN  [i \in 1..(rect.bottom - rect.top + 1) |->
            [off |-> dst + (i - 1) * bwd,
             n   |-> bws,
             row |-> rect.srcTop + (i - 1),
             col |-> rect.srcLeft]]

\* all the invocations of one jd_decomp call, in order: the row copies of
\* each
on_decoder_line_output_cb(fbw, rects) ==
    [k \in 1..Len(rects) |-> RowCopies(fbw, rects[k])]

(***************************************************************************)
(* Memory.  A byte is <<file, row, col, k>>: byte k of pixel (row, col)    *)
(* of the scaled image of that file; Indeterminate is a byte whose value   *)
(* C leaves open (never written, or outside a live allocation).  A frame   *)
(* buffer block keeps the callback invocations made on it (the rectangles  *)
(* and the stride fbw they were laid out with); its bytes are what their   *)
(* row copies wrote, the later copy winning.                               *)
(***************************************************************************)
Indeterminate == << 0, 0, 0, 0 >>

Covers(c, p) == c.off <= p /\ p < c.off + c.n

\* the byte at offset p of a block of size bytes that the invocations
\* calls wrote to
ByteAt(file, size, calls, p) ==
    IF p < 0 \/ p >= size THEN Indeterminate
    ELSE LET hits == { k \in 1..Len(calls) :
                         \E i \in 1..Len(calls[k]) : Covers(calls[k][i], p) }
         IN  IF hits = {} THEN Indeterminate
             ELSE LET k == CHOOSE j \in hits : \A m \in hits : m <= j
                      rows == { i \in 1..Len(calls[k]) : Covers(calls[k][i], p) }
                      i == CHOOSE j \in rows : \A m \in rows : m <= j
                      c == calls[k][i]
                  IN  << file, c.row, c.col + ((p - c.off) \div BYTES_ON_PIXEL),
                         (p - c.off) % BYTES_ON_PIXEL >>

\* the n bytes at ptr lie in one allocated block
InsideBlock(hp, ptr, n) ==
    /\ ptr.buf # NULL
    /\ hp[ptr.buf].alloc
    /\ 0 <= ptr.off
    /\ ptr.off + n <= hp[ptr.buf].size

\* memcpy(buf, ptr, n) out of the heap: what lands in buf
CopyOut(hp, ptr, n) ==
    IF ptr.buf = NULL \/ ~hp[ptr.buf].alloc
    THEN [i \in 1..n |-> Indeterminate]
    ELSE LET b == hp[ptr.buf]
             calls == on_decoder_line_output_cb(b.fbw, b.rects)
         IN  [i \in 1..n |-> ByteAt(b.file, b.size, calls, ptr.off + (i - 1))]

(***************************************************************************)
(* State.                                                                  *)
(***************************************************************************)
VARIABLES
    disk,           \* the file at ImagePath (its number in Files)
    scale,          \* LV_TJPGD_SCALING_FACTOR of this build
    phase,          \* where the host is: "idle", "queried", "opened", "aborted"
    src,            \* the source of the host's current descriptor
    img_data,       \* dsc->img_data
    header,         \* the lv_img_header_t the last decoder_info filled
    user_ctx,       \* static decoding_ctx_t user_ctx
    jdec,           \* JDEC jdec: the fields this file reads and writes
    buffered_data,  \* static bool of decoder_read
    lines_sent,     \* static uint8_t of decoder_read
    streams,        \* the FILE objects fopen has returned
    heap,           \* the blocks malloc has returned for frame buffers
    outbuf,         \* the host's line buffer after the last decoder_read
    last,           \* what the last call was and did
    hist            \* counters over the behaviour and the current session

vars == << disk, scale, phase, src, img_data, header, user_ctx, jdec, buffered_data,
           lines_sent, streams, heap, outbuf, last, hist >>

NoRect == [left |-> 0, right |-> 0, top |-> 0, bottom |-> 0]
NoCall == [op |-> "init", res |-> "none", jres |-> "none", hit |-> FALSE,
           x |-> 0, y |-> 0, len |-> 0, n |-> 0, streamsBefore |-> 0, inPattern |-> TRUE,
           inside |-> TRUE, src |-> NoSource, fopen |-> FALSE, work |-> "allocated",
           seg |-> 0, buff |-> FALSE, ret |-> 0]

\* FILE objects that are open
OpenStreams == { i \in 1..Len(streams) : streams[i].open }
\* frame buffers that are allocated
LiveBlocks == { i \in 1..Len(heap) : heap[i].alloc }

\* user_ctx after lv_tjpgd_init(): zero-initialised static storage, and the
\* work area allocated
InitCtx ==
    [fp |-> NULL,
     frame_buffer |-> NULL,
     work |-> "allocated",
     out_func_calls |-> 0,
     frame_buffer_width |-> 0,
     size |-> [height |-> 0, width |-> 0],
     last_decoded_coord |-> NoRect,
     lvgl_feeder_ptr |-> [buf |-> NULL, off |-> 0],
     after_decode_pos |-> 0,
     fp_consumed_bytes |-> 0]

\* sess: decoder_info calls; total: decoder_read calls; odd: those outside
\* the pattern.  Of the current session: reads, decomps (jd_decomp calls),
\* fresh (it began with no strip buffered and no line counted), inOrder (every
\* read was the whole next row), rowsOK (every line returned was that row of
\* the whole image).  Of the strip decoded last: strip (its number in the
\* image) and served (the reads answered from it).
InitHist ==
    [sess |-> 0, total |-> 0, odd |-> 0, reads |-> 0, decomps |-> 0,
     fresh |-> TRUE, inOrder |-> TRUE, rowsOK |-> TRUE, served |-> 0, strip |-> 0]

Init ==
    /\ disk \in 1..Len(Files)
    /\ scale \in 0..MaxScale
    /\ phase = "idle"
    /\ src = NoSource
    /\ img_data = NULL
    /\ header = [w |-> 0, h |-> 0]
    /\ user_ctx = InitCtx
    /\ jdec = [width |-> 0, height |-> 0]
    /\ buffered_data = FALSE
    /\ lines_sent = 0
    /\ streams = << >>
    /\ heap = << >>
    /\ outbuf = << >>
    /\ last = NoCall
    /\ hist = InitHist

\* The outcomes of a use of the work area: defined while it is allocated;
\* once freed the use is undefined, and the build either carries on as if
\* the block were still there or is stopped by the allocator.
WorkUse == IF user_ctx.work = "allocated" THEN {"defined"} ELSE {"asif", "abort"}

Abort(op) ==
    /\ phase' = "aborted"
    /\ last' = [NoCall EXCEPT !.op = op, !.res = "abort"]
    /\ UNCHANGED << disk, scale, src, img_data, header, user_ctx, jdec, buffered_data,
                    lines_sent, streams, heap, outbuf, hist >>

(***************************************************************************)
(* The scaled whole image of a file: what one jd_decomp over the native    *)
(* height lays out, rectangle by rectangle, at absolute coordinates.       *)
(***************************************************************************)
WholeWidth(file, s) == (file.w \div McuSize) * Shr(McuSize, s) + Shr(file.w % McuSize, s)
WholeHeight(file, s) == (file.h \div McuSize) * Shr(McuSize, s) + Shr(file.h % McuSize, s)
WholeRow(fi, s, row) ==
    [i \in 1..(WholeWidth(AllFiles[fi], s) * BYTES_ON_PIXEL) |->
        << fi, row, (i - 1) \div BYTES_ON_PIXEL, (i - 1) % BYTES_ON_PIXEL >>]

(***************************************************************************)
(* decoder_info(decoder, src, header)                                      *)
(***************************************************************************)
NewSession ==
    [hist EXCEPT !.sess = @ + 1, !.reads = 0, !.decomps = 0,
                 !.fresh = (~buffered_data /\ lines_sent = 0),
                 !.inOrder = TRUE, !.rowsOK = TRUE]

decoder_info(s, ub) ==
    /\ phase = "idle"
    /\ hist.sess < MaxSessions
    /\ IF s.type = "FILE" /\ ExtensionOK(s.pre, s.fn) /\ FileAt(s.fn, disk) # NULL
       THEN \* fopen succeeded; jd_prepare runs on user_ctx.work
            IF ub = "abort" THEN Abort("info")
            ELSE
            LET fi == FileAt(s.fn, disk)
                p  == jd_prepare(0, AllFiles[fi])
                sid == Len(streams) + 1
                w  == HeaderField(CDiv(I16(p.width), ScaleDiv(scale)))
                ctx1 == [user_ctx EXCEPT
                             !.fp = sid,
                             !.fp_consumed_bytes = @ + p.fed]
            IN  /\ streams' = Append(streams, [file |-> fi, pos |-> p.pos, open |-> TRUE])
                /\ IF p.res = "JDR_OK"
                   THEN /\ header' = [w |-> w, h |-> StripHeight]
                        /\ jdec' = [width |-> p.width, height |-> p.height]
                        /\ user_ctx' = [ctx1 EXCEPT
                               !.frame_buffer_width = U16(p.width \div ScaleDiv(scale)),
                               !.size = [height |-> StripHeight, width |-> w]]
                        /\ phase' = "queried"
                        /\ src' = s
                        /\ last' = [NoCall EXCEPT !.op = "info", !.res = "LV_RES_OK",
                                                  !.jres = p.res, !.src = s, !.fopen = TRUE,
                                                  !.work = user_ctx.work,
                                                  !.streamsBefore = Cardinality(OpenStreams)]
                   ELSE /\ user_ctx' = ctx1
                        /\ last' = [NoCall EXCEPT !.op = "info", !.res = "LV_RES_INV",
                                                  !.jres = p.res, !.src = s, !.fopen = TRUE,
                                                  !.work = user_ctx.work,
                                                  !.streamsBefore = Cardinality(OpenStreams)]
                        /\ UNCHANGED << header, jdec, phase, src >>
                /\ hist' = NewSession
                /\ UNCHANGED << disk, scale, img_data, buffered_data, lines_sent, heap, outbuf >>
       ELSE /\ ub = "defined" \/ ub = "asif"
            /\ IF s.type = "FILE" /\ ExtensionOK(s.pre, s.fn)
               THEN \* fopen failed: user_ctx.fp = NULL, return LV_RES_INV
                    /\ user_ctx' = [user_ctx EXCEPT !.fp = NULL]
                    /\ last' = [NoCall EXCEPT !.op = "info", !.res = "LV_RES_INV",
                                              !.src = s, !.fopen = TRUE,
                                              !.streamsBefore = Cardinality(OpenStreams)]
                    /\ UNCHANGED << phase, src >>
               ELSE IF s.type = "VARIABLE"
               THEN \* the stub: return LV_RES_OK
                    /\ last' = [NoCall EXCEPT !.op = "info", !.res = "LV_RES_OK",
                                              !.src = s,
                                              !.streamsBefore = Cardinality(OpenStreams)]
                    /\ phase' = "queried"
                    /\ src' = s
                    /\ UNCHANGED user_ctx
               ELSE \* wrong extension, or no source kind the decoder knows
                    /\ last' = [NoCall EXCEPT !.op = "info", !.res = "LV_RES_INV",
                                              !.src = s,
                                              !.streamsBefore = Cardinality(OpenStreams)]
                    /\ UNCHANGED << phase, src, user_ctx >>
            /\ hist' = NewSession
            /\ UNCHANGED << disk, scale, img_data, header, jdec, buffered_data, lines_sent,
                            streams, heap, outbuf >>

(***************************************************************************)
(* decoder_open(decoder, dsc)                                              *)
(***************************************************************************)
decoder_open ==
    /\ phase = "queried"
    /\ IF src.type = "FILE"
       THEN IF ExtensionOK(src.pre, src.fn)
            THEN /\ img_data' = NULL
                 /\ phase' = "opened"
                 /\ last' = [NoCall EXCEPT !.op = "open", !.res = "LV_RES_OK"]
            ELSE /\ phase' = "idle"
                 /\ last' = [NoCall EXCEPT !.op = "open", !.res = "LV_RES_INV"]
                 /\ UNCHANGED img_data
       ELSE IF src.type = "VARIABLE"
       THEN /\ phase' = "opened"
            /\ last' = [NoCall EXCEPT !.op = "open", !.res = "LV_RES_OK"]
            /\ UNCHANGED img_data
       ELSE /\ phase' = "idle"
            /\ last' = [NoCall EXCEPT !.op = "open", !.res = "LV_RES_INV"]
            /\ UNCHANGED img_data
    /\ UNCHANGED << disk, scale, src, header, user_ctx, jdec, buffered_data, lines_sent,
                    streams, heap, outbuf, hist >>

(***************************************************************************)
(* decoder_read(decoder, dsc, x, y, len, buf)                              *)
(***************************************************************************)
\* a free that releases nothing
FreeNothing(hp, ptr) == hp

\* free(ptr) of a frame buffer; free(NULL) does nothing
Free(hp, ptr) ==
    IF ptr = NULL THEN hp
    ELSE [hp EXCEPT ![ptr] = [alloc |-> FALSE, size |-> 0, file |-> 0, fbw |-> 0,
                              rects |-> << >>]]

\* the request the host makes next in the supported pattern: the whole of
\* the next row
InPattern(x, y, len) == x = 0 /\ len = header.w /\ y = hist.reads

\* the requests tried: the supported one, and one off in x, in y, in len
Requests ==
    { [x |-> 0, y |-> hist.reads, len |-> header.w],
      [x |-> 1, y |-> hist.reads, len |-> header.w],
      [x |-> 0, y |-> hist.reads + 1, len |-> header.w],
      [x |-> 0, y |-> hist.reads, len |-> header.w + 1] }

\* the strip given up after every line
StripDoneAtOnce(sent) == TRUE

\* the strip kept for one line more
StripDoneLate(sent) == StripHeight < sent

\* the strip given up one line early
StripDoneEarly(sent) == LastLineIdx <= sent

\* "if (7 < lines_sent)"
StripDone(sent) == LastLineIdx < sent

ReadHist(x, y, len, miss, strip, out) ==
    [hist EXCEPT !.total = @ + 1,
                 !.reads = @ + 1,
                 !.odd = IF InPattern(x, y, len) THEN @ ELSE @ + 1,
                 !.decomps = IF miss THEN @ + 1 ELSE @,
                 !.inOrder = @ /\ InPattern(x, y, len),
                 !.rowsOK = @ /\ y < WholeHeight(AllFiles[streams[user_ctx.fp].file], scale)
                              /\ out = WholeRow(streams[user_ctx.fp].file, scale, y),
                 !.served = IF miss THEN 1 ELSE @ + 1,
                 !.strip = IF miss THEN strip ELSE @]

\* (only file sources are read: the in-memory path is a stub that opens no
\* stream)
decoder_read(x, y, len, ub) ==
    /\ phase = "opened"
    /\ src.type = "FILE"
    /\ hist.total < MaxReads
    /\ InPattern(x, y, len) \/ hist.odd < MaxOdd
    /\ LET n == len * BYTES_ON_PIXEL IN
       IF buffered_data
       THEN \* serve the line from the strip
            LET out  == CopyOut(heap, user_ctx.lvgl_feeder_ptr, n)
                sent == U8(lines_sent + 1)
            IN  /\ ub = "defined" \/ ub = "asif"
                /\ outbuf' = out
                /\ lines_sent' = IF StripDone(sent) THEN 0 ELSE sent
                /\ buffered_data' = ~StripDone(sent)
                /\ heap' = IF StripDone(sent) THEN Free(heap, user_ctx.frame_buffer)
                           ELSE heap
                /\ user_ctx' = [user_ctx EXCEPT
                       !.lvgl_feeder_ptr.off = @ + n,
                       !.frame_buffer = IF StripDone(sent) THEN NULL ELSE @]
                /\ last' = [NoCall EXCEPT !.op = "read", !.res = "LV_RES_OK",
                                          !.hit = TRUE, !.x = x, !.y = y, !.len = len,
                                          !.n = n, !.inPattern = InPattern(x, y, len),
                                          !.inside = InsideBlock(heap, user_ctx.lvgl_feeder_ptr, n)]
                /\ hist' = ReadHist(x, y, len, FALSE, 0, out)
                /\ UNCHANGED << disk, scale, phase, src, img_data, header, jdec, streams >>
       ELSE \* decode the next strip, then serve its first line
            IF ub = "abort" THEN Abort("read")
            ELSE
            LET \* a uint32_t: at most 65535 * 8 * BYTES_ON_PIXEL, which fits
                size == user_ctx.size.width * 8 * BYTES_ON_PIXEL
                fb   == Len(heap) + 1
                st   == streams[user_ctx.fp]
                d    == jd_decomp([width |-> jdec.width, height |-> StripHeight,
                                   scale |-> scale], AllFiles[st.file], st.pos)
                heap1 == Append(heap, [alloc |-> TRUE, size |-> size, file |-> st.file,
                                       fbw |-> user_ctx.frame_buffer_width,
                                       rects |-> d.rects])
                out  == CopyOut(heap1, [buf |-> fb, off |-> 0], n)
                strip == (st.pos - HdrBytes) \div (McuBytes * McuCols(AllFiles[st.file].w))
            IN  /\ heap' = heap1
                /\ streams' = [streams EXCEPT ![user_ctx.fp].pos = d.pos]
                /\ jdec' = [jdec EXCEPT !.height = StripHeight]
                /\ outbuf' = out
                /\ lines_sent' = U8(lines_sent + 1)
                /\ buffered_data' = TRUE
                /\ user_ctx' = [user_ctx EXCEPT
                       !.frame_buffer = fb,
                       !.out_func_calls = @ + Len(d.rects),
                       !.last_decoded_coord =
                           IF d.rects = << >> THEN @
                           ELSE LET r == d.rects[Len(d.rects)]
                                IN  [left |-> r.left, right |-> r.right,
                                     top |-> r.top, bottom |-> r.bottom],
                       !.lvgl_feeder_ptr = [buf |-> fb, off |-> n],
                       !.after_decode_pos = d.pos,
                       !.fp_consumed_bytes = @ + d.fed]
                /\ last' = [NoCall EXCEPT !.op = "read", !.res = "LV_RES_OK",
                                          !.jres = d.res,
                                          !.hit = FALSE, !.x = x, !.y = y, !.len = len,
                                          !.n = n, !.inPattern = InPattern(x, y, len),
                                          !.inside = InsideBlock(heap1, [buf |-> fb, off |-> 0], n)]
                /\ hist' = ReadHist(x, y, len, TRUE, strip, out)
                /\ UNCHANGED << disk, scale, phase, src, img_data, header >>

(***************************************************************************)
(* decoder_close(decoder, dsc)                                             *)
(***************************************************************************)
decoder_close(ub) ==
    /\ phase = "opened"
    /\ IF ub = "abort" THEN Abort("close")
       ELSE /\ user_ctx' = [user_ctx EXCEPT !.work = "freed"]
            /\ heap' = IF img_data # NULL THEN Free(heap, img_data) ELSE heap
            /\ phase' = "idle"
            /\ last' = [NoCall EXCEPT !.op = "close", !.res = "void",
                                      !.work = user_ctx.work]
            /\ UNCHANGED << disk, scale, src, img_data, header, jdec, buffered_data,
                            lines_sent, streams, outbuf, hist >>

(***************************************************************************)
(* The host: it queries a source, opens it when the query succeeded,       *)
(* reads lines, and closes.                                                *)
(***************************************************************************)
QueryInfo == \E s \in Sources : \E ub \in WorkUse : decoder_info(s, ub)
Open == decoder_open
ReadLine == \E r \in Requests : \E ub \in WorkUse : decoder_read(r.x, r.y, r.len, ub)
Close == \E ub \in WorkUse : decoder_close(ub)

Next == QueryInfo \/ Open \/ ReadLine \/ Close

Spec == Init /\ [][Next]_vars

(***************************************************************************)
(* The same callbacks on images of every width class, without the line     *)
(* reads: the specification for the arithmetic of decoder_info.            *)
(***************************************************************************)
InitInfo ==
    /\ disk \in 1..Len(AllFiles)
    /\ scale \in 0..MaxScale
    /\ phase = "idle"
    /\ src = NoSource
    /\ img_data = NULL
    /\ header = [w |-> 0, h |-> 0]
    /\ user_ctx = InitCtx
    /\ jdec = [width |-> 0, height |-> 0]
    /\ buffered_data = FALSE
    /\ lines_sent = 0
    /\ streams = << >>
    /\ heap = << >>
    /\ outbuf = << >>
    /\ last = NoCall
    /\ hist = InitHist

NextInfo == QueryInfo \/ Open \/ Close

SpecInfo == InitInfo /\ [][NextInfo]_vars

(***************************************************************************)
(* The host that reads rows in the supported pattern only, on the small    *)
(* images and on the first wide ones: the specification for what a strip   *)
(* decode writes.                                                          *)
(***************************************************************************)
InitStrip ==
    /\ InitInfo
    /\ AllFiles[disk].w <= WideWidths[4]
    /\ HeaderField(CDiv(I16(AllFiles[disk].w), ScaleDiv(scale))) <= MaxWidth

ReadNextRow ==
    /\ hist.reads <= StripHeight
    /\ \E ub \in WorkUse : decoder_read(0, hist.reads, header.w, ub)

NextStrip == QueryInfo \/ Open \/ ReadNextRow \/ Close

SpecStrip == InitStrip /\ [][NextStrip]_vars

(***************************************************************************)
(* decoder_info of a file, one call of the feed callback at a time: the    *)
(* specification for what the engine is fed.  info_begin is decoder_info   *)
(* up to the call of jd_prepare; info_feed is one request of jd_prepare,   *)
(* which gives up when a request is not met, and what decoder_info does    *)
(* when jd_prepare returns.  last.seg counts the requests made, last.buff, *)
(* last.n and last.ret are the last one and its answer.                    *)
(***************************************************************************)
info_begin(s, ub) ==
    /\ phase = "idle"
    /\ hist.sess < MaxSessions
    /\ s.type = "FILE"
    /\ ExtensionOK(s.pre, s.fn)
    /\ FileAt(s.fn, disk) # NULL
    /\ IF ub = "abort" THEN Abort("info")
       ELSE /\ streams' = Append(streams, [file |-> FileAt(s.fn, disk), pos |-> 0,
                                            open |-> TRUE])
            /\ user_ctx' = [user_ctx EXCEPT !.fp = Len(streams) + 1]
            /\ phase' = "preparing"
            /\ last' = [NoCall EXCEPT !.op = "prepare", !.src = s, !.fopen = TRUE,
                                      !.work = user_ctx.work,
                                      !.streamsBefore = Cardinality(OpenStreams)]
            /\ hist' = NewSession
            /\ UNCHANGED << disk, scale, src, img_data, header, jdec, buffered_data,
                            lines_sent, heap, outbuf >>

info_feed ==
    /\ phase = "preparing"
    /\ LET k   == last.seg + 1
           req == HeaderPlan[k]
           st  == streams[user_ctx.fp]
           f   == on_feed_decoder_cb(st.pos, AllFiles[st.file], req.buff, req.n)
           w   == HeaderField(CDiv(I16(AllFiles[st.file].w), ScaleDiv(scale)))
           ctx1 == [user_ctx EXCEPT !.fp_consumed_bytes = @ + req.n]
           call == [last EXCEPT !.seg = k, !.buff = req.buff, !.n = req.n, !.ret = f.ret]
       IN  /\ streams' = [streams EXCEPT ![user_ctx.fp].pos = f.pos]
           /\ IF f.ret # req.n
              THEN \* jd_prepare returns JDR_INP, decoder_info LV_RES_INV
                   /\ user_ctx' = ctx1
                   /\ phase' = "idle"
                   /\ last' = [call EXCEPT !.op = "info", !.res = "LV_RES_INV",
                                           !.jres = "JDR_INP"]
                   /\ UNCHANGED << header, jdec, src >>
              ELSE IF k = Len(HeaderPlan)
              THEN \* jd_prepare returns JDR_OK
                   /\ header' = [w |-> w, h |-> StripHeight]
                   /\ jdec' = [width |-> AllFiles[st.file].w, height |-> AllFiles[st.file].h]
                   /\ user_ctx' = [ctx1 EXCEPT
                          !.frame_buffer_width = U16(AllFiles[st.file].w \div ScaleDiv(scale)),
                          !.size = [height |-> StripHeight, width |-> w]]
                   /\ phase' = "queried"
                   /\ src' = last.src
                   /\ last' = [call EXCEPT !.op = "info", !.res = "LV_RES_OK",
                                           !.jres = "JDR_OK"]
              ELSE \* jd_prepare goes on
                   /\ user_ctx' = ctx1
                   /\ last' = [call EXCEPT !.op = "feed"]
                   /\ UNCHANGED << phase, header, jdec, src >>
    /\ UNCHANGED << disk, scale, img_data, buffered_data, lines_sent, heap, outbuf, hist >>

PrepareBegin == \E s \in Sources : \E ub \in WorkUse : info_begin(s, ub)
FeedStep == info_feed

NextFeed == PrepareBegin \/ FeedStep \/ Open \/ Close

\* decoder_info runs to completion on the caller's thread: a jd_prepare
\* that has a request to make makes it
SpecFeed == Init /\ [][NextFeed]_vars /\ WF_vars(FeedStep)

(***************************************************************************)
(* Properties.                                                             *)
(***************************************************************************)
Returned(op) == last.op = op /\ last.res # "abort"
\* the file of the stream the session reads
CurFile == streams[user_ctx.fp].file
EngineFailed == last.jres # "none" /\ last.jres # "JDR_OK"
CeilDiv(a, b) == (a + b - 1) \div b

\* C1: in a session that begins with no strip buffered, after n decoder_read
\* calls jd_decomp has been called ceil(n / 8) times, and a call runs it
\* exactly when it is call 1, 9, 17, ... of the session.
C1_DecompressEveryEighthCall ==
    hist.fresh =>
        /\ hist.decomps = CeilDiv(hist.reads, StripHeight)
        /\ Returned("read") => (~last.hit <=> hist.reads % StripHeight = 1)

\* the 17th call of such a session has just run the third jd_decomp
C1_Witness ==
    /\ hist.fresh
    /\ Returned("read")
    /\ hist.reads = 2 * StripHeight + 1
    /\ ~last.hit
    /\ hist.decomps = 3

\* C2: once the host has read every row 0 .. h-1 of the reported height h in
\* order, each with x = 0 and len = the reported width, the lines returned
\* are, row for row, the whole scaled image: as many rows as it has, each
\* as wide as it is and equal to its row.
C2_RowsAreTheWholeImage ==
    (phase = "opened" /\ src.type = "FILE" /\ hist.inOrder /\ hist.reads = header.h)
        => /\ hist.rowsOK
           /\ header.h = WholeHeight(AllFiles[CurFile], scale)
           /\ header.w = WholeWidth(AllFiles[CurFile], scale)

\* C3: after decoder_close the work area is freed, no frame buffer is
\* allocated and no stream is open.
C3_CloseReleasesEverything ==
    Returned("close") =>
        /\ user_ctx.work = "freed"
        /\ LiveBlocks = {}
        /\ OpenStreams = {}

\* C4: the first decoder_read of every session runs jd_decomp, and when the
\* engine succeeds and the request is the whole first row it returns row 0
\* of the image.
C4_FirstReadOfSessionDecodes ==
    (Returned("read") /\ hist.reads = 1) =>
        /\ ~last.hit
        /\ (last.jres = "JDR_OK" /\ last.inPattern) => outbuf = WholeRow(CurFile, scale, 0)

\* C5: when decoder_info returns LV_RES_INV, as many streams are open as
\* before the call.
C5_FailedInfoLeavesNoStream ==
    (Returned("info") /\ last.res = "LV_RES_INV")
        => Cardinality(OpenStreams) = last.streamsBefore

\* C6: a decoder_read in which jd_decomp returned an error returns
\* LV_RES_INV.
C6_EngineErrorFailsTheRead ==
    (Returned("read") /\ EngineFailed) => last.res = "LV_RES_INV"

\* C7: after a decoder_read that failed, or in which jd_decomp returned an
\* error, no strip is buffered and no line is counted as sent.
C7_FailedReadInvalidatesCache ==
    (Returned("read") /\ (last.res = "LV_RES_INV" \/ EngineFailed))
        => /\ ~buffered_data
           /\ lines_sent = 0

\* C8: a decoder_read with x # 0, len # the reported width, or y not the
\* next row returns LV_RES_INV and copies nothing.
C8_OddRequestIsRejected ==
    (Returned("read") /\ ~last.inPattern) =>
        /\ last.res = "LV_RES_INV"
        /\ last.n = 0

\* the rows of the image that strip number k holds
RowsInStrip(file, s, k) ==
    LET per == Shr(McuSize, s)
        left == WholeHeight(file, s) - k * per
    IN  IF left <= 0 THEN 0 ELSE Min(per, left)

\* C9: of an image whose height is no multiple of 8, the last strip answers
\* no more reads than it has rows of the image, and every whole row served
\* from it is copied from inside the allocated frame buffer.
C9_LastStripServesItsRows ==
    (Returned("read") /\ last.res = "LV_RES_OK"
        /\ AllFiles[CurFile].h % StripHeight # 0
        /\ hist.strip = AllFiles[CurFile].h \div StripHeight)
        => /\ hist.served <= RowsInStrip(AllFiles[CurFile], scale, hist.strip)
           /\ last.inPattern => last.inside

\* C10: after a successful decoder_info of a file the reported width is the
\* native width divided by the scale divisor, and the reported height is 8.
C10_ReportedSize ==
    (Returned("info") /\ last.res = "LV_RES_OK" /\ src.type = "FILE") =>
        /\ header.w = jdec.width \div ScaleDiv(scale)
        /\ header.h = StripHeight

\* the path has three characters or more and its last three are "jpg"
EndsInJpg(fn) ==
    Len(fn) >= Len(VALID_FILE_EXTENSION)
        /\ SubSeq(fn, Len(fn) - 2, Len(fn)) = VALID_FILE_EXTENSION

\* C11: a decoder_info of a file path that does not end in "jpg" returns
\* LV_RES_INV without having called fopen or the engine, and no FILE has
\* been opened by it.
C11_OnlyJpgPathsReachFopen ==
    (Returned("info") /\ last.src.type = "FILE" /\ ~EndsInJpg(last.src.fn))
        => /\ last.res = "LV_RES_INV"
           /\ ~last.fopen
           /\ last.jres = "none"
           /\ Cardinality(OpenStreams) = last.streamsBefore

\* what the statics of decoder_read say between calls
StripStates ==
    /\ lines_sent \in 0..StripHeight
    /\ buffered_data <=> (1 <= lines_sent /\ lines_sent <= LastLineIdx)
    /\ ~buffered_data => lines_sent = 0

\* a decoder_read that returns is served from the strip exactly when a
\* strip was buffered at the call and fewer than 8 lines of it were sent
HitWhenServing ==
    (last'.op = "read" /\ last'.res # "abort")
        => (last'.hit <=> (buffered_data /\ lines_sent < StripHeight))

\* C12: between calls lines_sent is within 0..8, a strip is buffered
\* exactly when lines_sent is within 1..7, lines_sent is 0 when none is, and
\* a decoder_read is a hit exactly when a strip is buffered and fewer than 8
\* of its lines are sent.
C12_StripStateMachine == []StripStates /\ [][HitWhenServing]_vars

\* the hit that served the 8th line of a strip and gave the strip up
C12_Witness ==
    /\ Returned("read")
    /\ last.hit
    /\ hist.served = StripHeight
    /\ ~buffered_data
    /\ lines_sent = 0

\* the byte offset in the strip that the last decoder_read copied from: the
\* cursor has moved on by what was copied
CopiedFrom == user_ctx.lvgl_feeder_ptr.off - last.n

\* C13: when every decoder_read so far asked for the whole next row (so len
\* was the reported width), the k-th line served from a strip is copied from
\* pixel offset (k - 1) * len of it, the cursor is then at k * len, and the
\* bytes copied lie inside the allocated frame buffer.
C13_LinesComeFromTheStrip ==
    (Returned("read") /\ hist.odd = 0) =>
        /\ CopiedFrom = (hist.served - 1) * last.len * BYTES_ON_PIXEL
        /\ user_ctx.lvgl_feeder_ptr.off = hist.served * last.len * BYTES_ON_PIXEL
        /\ last.inside

\* C14: at most one frame buffer is allocated at any time, it is the one
\* user_ctx.frame_buffer points to, and none is allocated when no strip is
\* buffered: so the malloc of a miss never overwrites the pointer to a
\* block that is still allocated.
C14_AtMostOneStripBuffer ==
    /\ Cardinality(LiveBlocks) <= 1
    /\ LiveBlocks \subseteq {user_ctx.frame_buffer}
    /\ ~buffered_data => LiveBlocks = {}

\* a miss has allocated the second strip, the first one being freed
C14_Witness ==
    /\ Returned("read")
    /\ ~last.hit
    /\ Len(heap) = 2
    /\ ~heap[1].alloc
    /\ LiveBlocks = {user_ctx.frame_buffer}

\* the row copies of rectangle r are where C15 says, inside a block of size
\* bytes: row i of the rectangle at row r.top + i of the strip
RowsInPlace(fbw, r, size) ==
    LET cs == RowCopies(fbw, r)
    IN  \A i \in 1..Len(cs) :
            /\ cs[i].off = BYTES_ON_PIXEL * ((r.top + (i - 1)) * user_ctx.size.width + r.left)
            /\ cs[i].n = BYTES_ON_PIXEL * (r.right - r.left + 1)
            /\ cs[i].off + cs[i].n <= size

\* C15: after a decoder_read that decoded a strip, every rectangle the
\* engine reported was copied row by row to the rows top, top + 1, ... of
\* the frame buffer (the engine counts rows from the top of the strip), at
\* column left, as wide as the rectangle, one row every scaled width, and
\* every byte written lies inside the frame buffer.
C15_RectanglesLandInTheStrip ==
    (Returned("read") /\ ~last.hit) =>
        LET b == heap[user_ctx.frame_buffer]
        IN  \A k \in 1..Len(b.rects) : RowsInPlace(b.fbw, b.rects[k], b.size)

\* C16: the work area is allocated when jd_prepare is handed it and when
\* decoder_close frees it (last.work is its state at that moment).
C16_WorkAreaIsLiveWhenUsed ==
    ((Returned("info") /\ last.jres # "none") \/ Returned("close"))
        => last.work = "allocated"

\* what a decoder_read served from the strip leaves alone: all but the
\* cursor, lines_sent and, with the 8th line, buffered_data, the frame
\* buffer and the pointer to it
HitFrame ==
    (last'.op = "read" /\ last'.res # "abort" /\ last'.hit) =>
        /\ UNCHANGED << streams, jdec, header, img_data, src, phase >>
        /\ user_ctx' = [user_ctx EXCEPT
                            !.lvgl_feeder_ptr = user_ctx'.lvgl_feeder_ptr,
                            !.frame_buffer = user_ctx'.frame_buffer]
        /\ user_ctx'.lvgl_feeder_ptr.buf = user_ctx.lvgl_feeder_ptr.buf
        /\ (buffered_data' # buffered_data \/ heap' # heap
               \/ user_ctx'.frame_buffer # user_ctx.frame_buffer)
              => lines_sent + 1 = StripHeight

\* the sizes decoder_info set are left alone by every other callback
SizesFrame ==
    (last'.op \in {"read", "open", "close"}) =>
        /\ user_ctx'.size = user_ctx.size
        /\ user_ctx'.frame_buffer_width = user_ctx.frame_buffer_width
        /\ header' = header

\* C17: a decoder_read served from the strip changes only the cursor,
\* lines_sent and, with the 8th line, buffered_data and the frame buffer; the
\* stream position, jdec, out_func_calls and the sizes stay as they were;
\* and no decoder_read, decoder_open or decoder_close changes the sizes.
C17_HitTouchesOnlyTheCache == [][HitFrame /\ SizesFrame]_vars

\* a line served from the second strip of a session, between its first and
\* its last
C17_Witness ==
    /\ Returned("read")
    /\ last.hit
    /\ buffered_data
    /\ hist.decomps = 2
    /\ hist.served = 2

\* C18: after a successful decoder_info of a file the width the frame
\* buffer is sized with is the stride of the output callback, so the
\* size.width * 8 pixels allocated hold 8 rows of frame_buffer_width pixels.
C18_BufferWidthIsTheStride ==
    (Returned("info") /\ last.res = "LV_RES_OK" /\ last.src.type = "FILE") =>
        /\ user_ctx.size.width = user_ctx.frame_buffer_width
        /\ user_ctx.size.width * StripHeight * BYTES_ON_PIXEL
              >= StripHeight * user_ctx.frame_buffer_width * BYTES_ON_PIXEL

\* what a call of the feed callback returns and where it leaves the stream
FeedContract ==
    (phase = "preparing" /\ last' # last) =>
        LET before == streams[user_ctx.fp].pos
            after  == streams'[user_ctx.fp].pos
            flen   == AllFiles[streams[user_ctx.fp].file].len
        IN  IF last'.buff
            THEN /\ last'.ret = after - before
                 /\ last'.ret <= last'.n
                 /\ after <= flen \/ after = before
                 /\ before >= flen => last'.ret = 0
            ELSE \/ last'.ret = last'.n /\ after = before + last'.n
                 \/ last'.ret = 0

\* jd_prepare is at work on a stream that ends inside the header
TruncatedHeader ==
    phase = "preparing" /\ AllFiles[streams[user_ctx.fp].file].len < HdrBytes

\* decoder_info has returned LV_RES_INV on an engine error
InfoFailedOnEngine ==
    Returned("info") /\ last.res = "LV_RES_INV" /\ EngineFailed

\* C19: a feed with a buffer returns the bytes it read, at most n and 0
\* once the stream is at its end; a feed without one skips n bytes and
\* returns n, or returns 0; and a decoder_info whose stream ends inside the
\* header returns LV_RES_INV on the engine's error.
C19_FeedIsBounded == [][FeedContract]_vars /\ (TruncatedHeader ~> InfoFailedOnEngine)

\* decoder_info has failed on a stream that ended inside the frame header:
\* the last feed was asked for 2 bytes and read 1
C19_Witness ==
    /\ InfoFailedOnEngine
    /\ AllFiles[streams[user_ctx.fp].file].len = HdrBytes - 1
    /\ last.seg = Len(HeaderPlan)
    /\ last.buff
    /\ last.ret = 1
    /\ last.ret < last.n

====
